---------------------------- MODULE Spec2Model ----------------------------
(***************************************************************************)
(* SafeRedisLock: a queued lock kept in one Redis list.  Every session is  *)
(* one SafeRedisLock object; every action below is one Redis command (or   *)
(* one MULTI/EXEC pipeline) or one read of the wall clock, together with   *)
(* the local computation that follows it in SafeRedisLock/__init__.py.     *)
(***************************************************************************)
EXTENDS Integers, Sequences, FiniteSets, TLC

(* ------------------------------ bounds --------------------------------- *)
NumSessions == 2
MaxTime == 3
MaxUuid == 4
TimeoutT == 1
BlockT == 1
MaxCalls == 3

(* The clock counts half microseconds; "%f" prints whole microseconds.     *)
Res == 2

Sessions == 1..NumSessions
Uuids == 1..MaxUuid
None == -1

(* "%s__%f" % (uuid, t): the time is rounded to six decimals.              *)
Fmt(t) == ((t + (Res \div 2)) \div Res) * Res
TimestampedKey(u, t) == [uuid |-> u, ts |-> Fmt(t)]
NoKey == [uuid |-> 0, ts |-> 0]

(* ------------------------- Redis list commands ------------------------- *)
(* mutant: LPUSH instead of RPUSH *)
LPush(q, v) == <<v>> \o q
RPush(q, v) == Append(q, v)
(* mutant: LREM removes nothing *)
LRemNothing(q, v) == q
LRem(q, v) == SelectSeq(q, LAMBDA x : x # v)
LRange00(q) == IF q = <<>> THEN <<>> ELSE <<Head(q)>>
InSeq(q, v) == \E k \in 1..Len(q) : q[k] = v
IndexOf(q, v) == CHOOSE k \in 1..Len(q) : q[k] = v /\ \A m \in 1..(k-1) : q[m] # v
LInsertBefore(q, pivot, v) ==
    IF InSeq(q, pivot)
    THEN LET k == IndexOf(q, pivot)
         IN SubSeq(q, 1, k-1) \o <<v>> \o SubSeq(q, k, Len(q))
    ELSE q

VARIABLES
    queue,            \* the Redis list stored under self.key
    clock,            \* time.time()
    globalTimeout,    \* self.globalTimeout, the same for every session
    uuid,             \* self.uuid
    acquiredAt,       \* self.acquiredAt
    lockTimestamp,    \* self.lockTimestamp
    pc,               \* where each session is
    blocking,         \* acquire's parameter
    blockingTimeout,  \* acquire's parameter
    start,            \* acquire's local
    now,              \* acquire's local
    timestampedKey,   \* acquire's local
    nextInLine,       \* acquire's local
    allKeys,          \* acquire's local
    i,                \* acquire's local: the index of our key in allKeys
    j,                \* acquire's local: the next index to remove
    lineItems,        \* release's local: the items still to remove
    last,             \* history: the result of the session's last call
    calls,            \* history: the number of calls made so far
    cleared,          \* history: "no" clear so far, "just" cleared, or "yes"
    pushed,           \* history: the sessions inside acquire, in RPUSH order
    overtaken         \* history: the sessions a later RPUSH got the lock before

vars == <<queue, clock, globalTimeout, uuid, acquiredAt, lockTimestamp, pc,
          blocking, blockingTimeout, start, now, timestampedKey, nextInLine,
          allKeys, i, j, lineItems, last, calls, cleared, pushed, overtaken>>

locals == <<blocking, blockingTimeout, start, now, timestampedKey, nextInLine,
            allKeys, i, j, lineItems>>

(* ------------------------------ __init__ ------------------------------- *)
Init ==
    /\ queue = <<>>
    /\ clock = 0
    /\ globalTimeout \in {0, TimeoutT}
    /\ uuid = [s \in Sessions |-> s]
    /\ acquiredAt = [s \in Sessions |-> None]
    /\ lockTimestamp = [s \in Sessions |-> None]
    /\ pc = [s \in Sessions |-> "idle"]
    /\ blocking = [s \in Sessions |-> TRUE]
    /\ blockingTimeout = [s \in Sessions |-> 0]
    /\ start = [s \in Sessions |-> 0]
    /\ now = [s \in Sessions |-> 0]
    /\ timestampedKey = [s \in Sessions |-> NoKey]
    /\ nextInLine = [s \in Sessions |-> NoKey]
    /\ allKeys = [s \in Sessions |-> <<>>]
    /\ i = [s \in Sessions |-> 0]
    /\ j = [s \in Sessions |-> 0]
    /\ lineItems = [s \in Sessions |-> <<>>]
    /\ last = [s \in Sessions |-> "none"]
    /\ calls = 0
    /\ cleared = "no"
    /\ pushed = <<>>
    /\ overtaken = {}

(* ------------------------------ _genUuid ------------------------------- *)
(* uuid4 values are unique; an identifier that occurs nowhere in the state *)
(* behaves like a fresh one.                                               *)
UuidsOf(q) == {q[k].uuid : k \in 1..Len(q)}
UsedUuids ==
    UuidsOf(queue)
    \cup {uuid[s] : s \in Sessions}
    \cup {timestampedKey[s].uuid : s \in Sessions}
    \cup {nextInLine[s].uuid : s \in Sessions}
    \cup UNION {UuidsOf(allKeys[s]) : s \in Sessions}
    \cup UNION {UuidsOf(lineItems[s]) : s \in Sessions}
CanGenUuid == Uuids \ UsedUuids # {}
(* mutant: the identifier is not random, every call yields the same one *)
GenUuidFixed == CHOOSE u \in Uuids : \A v \in Uuids : u <= v
GenUuid == CHOOSE u \in Uuids \ UsedUuids : \A v \in Uuids \ UsedUuids : u <= v

(* ---------------------------- _hasLockPlusKey -------------------------- *)
HasLockAt(s, q, t) ==
    /\ q # <<>>
    /\ Head(q).uuid = uuid[s]
    /\ (globalTimeout = 0 \/ t - Head(q).ts < globalTimeout)
HasLock(s) == HasLockAt(s, queue, clock)

(* ---------------------------- secondsRemaining ------------------------- *)
SecondsRemaining(s) ==
    IF lockTimestamp[s] = None THEN None
    ELSE lockTimestamp[s] - (clock - globalTimeout)

(* a store command other than clear's DELETE has been executed *)
AfterCommand == IF cleared = "no" THEN "no" ELSE "yes"

(* --------------------------- local bookkeeping ------------------------- *)
(* A local that the code does not read again is put back to its initial   *)
(* value, so that states differing only in dead locals are one state.     *)
ResetLocals(s) ==
    /\ blocking' = [blocking EXCEPT ![s] = TRUE]
    /\ blockingTimeout' = [blockingTimeout EXCEPT ![s] = 0]
    /\ start' = [start EXCEPT ![s] = 0]
    /\ now' = [now EXCEPT ![s] = 0]
    /\ timestampedKey' = [timestampedKey EXCEPT ![s] = NoKey]
    /\ nextInLine' = [nextInLine EXCEPT ![s] = NoKey]
    /\ allKeys' = [allKeys EXCEPT ![s] = <<>>]
    /\ i' = [i EXCEPT ![s] = 0]
    /\ j' = [j EXCEPT ![s] = 0]
    /\ lineItems' = [lineItems EXCEPT ![s] = <<>>]

(* the sessions whose RPUSH of line 185 came before that of s *)
PushedBefore(s) ==
    {pushed[k] : k \in {m \in 1..Len(pushed) :
                          \E n \in (m+1)..Len(pushed) : pushed[n] = s}}

Return(s, result) ==
    /\ pc' = [pc EXCEPT ![s] = "idle"]
    /\ last' = [last EXCEPT ![s] = result]
    /\ pushed' = SelectSeq(pushed, LAMBDA x : x # s)
    /\ overtaken' = IF result = "acq_true"
                    THEN (overtaken \cup PushedBefore(s)) \ {s}
                    ELSE overtaken \ {s}
    /\ ResetLocals(s)

(* mutant: keepGoing() compares with blockingTimeout even when it is 0 *)
LoopTopAlways(s) == "loop"

(* lines 188-193: keepGoing() reads the clock only with a blockingTimeout *)
LoopTop(s) == IF blockingTimeout[s] # 0 THEN "loop" ELSE "head"

(* the end of one pass of the poll loop: lines 249-255 *)
EndOfPass(s) == IF blocking[s] THEN LoopTop(s) ELSE "nb_lrem"

(* lines 207-217, once the head has been read *)
AfterHead(s, head) ==
    IF head = timestampedKey[s] THEN "got"
    ELSE IF globalTimeout # 0 THEN "chk_stale"
    ELSE EndOfPass(s)

(* -------------------------------- acquire ------------------------------ *)
(* lines 166-171 and 398-408: the call, and _hasLockPlusKey's LRANGE 0 0 *)
AcquireCall(s, b, bt) ==
    /\ pc[s] = "idle"
    /\ blocking' = [blocking EXCEPT ![s] = b]
    /\ blockingTimeout' = [blockingTimeout EXCEPT ![s] = bt]
    /\ IF queue = <<>> \/ Head(queue).uuid # uuid[s]
       THEN /\ pc' = [pc EXCEPT ![s] = "gen"]
            /\ UNCHANGED nextInLine
       ELSE /\ pc' = [pc EXCEPT ![s] =
                        IF globalTimeout = 0 THEN "ref_time" ELSE "hl_time"]
            /\ nextInLine' = [nextInLine EXCEPT ![s] = Head(queue)]
    /\ cleared' = AfterCommand
    /\ UNCHANGED <<queue, clock, globalTimeout, uuid, acquiredAt, lockTimestamp,
                   start, now, timestampedKey, allKeys, i, j, lineItems, last,
                   pushed, overtaken>>

(* lines 409-412: _hasLockPlusKey reads the clock *)
HasLockTime(s) ==
    /\ pc[s] = "hl_time"
    /\ IF clock - nextInLine[s].ts < globalTimeout
       THEN /\ pc' = [pc EXCEPT ![s] = "ref_time"]
            /\ UNCHANGED nextInLine
       ELSE /\ pc' = [pc EXCEPT ![s] = "gen"]
            /\ nextInLine' = [nextInLine EXCEPT ![s] = NoKey]
    /\ UNCHANGED <<queue, clock, globalTimeout, uuid, acquiredAt, lockTimestamp,
                   blocking, blockingTimeout, start, now, timestampedKey,
                   allKeys, i, j, lineItems, last, calls, cleared, pushed, overtaken>>

(* lines 177-183: a new uuid, start = now = time.time(), the new key *)
(* (start is read again only by keepGoing, with a blockingTimeout)   *)
GenTicket(s) ==
    /\ pc[s] = "gen"
    /\ CanGenUuid
    /\ uuid' = [uuid EXCEPT ![s] = GenUuid]
    /\ start' = [start EXCEPT ![s] = IF blockingTimeout[s] # 0 THEN clock ELSE 0]
    /\ timestampedKey' = [timestampedKey EXCEPT ![s] = TimestampedKey(GenUuid, clock)]
    /\ pc' = [pc EXCEPT ![s] = "push"]
    /\ UNCHANGED <<queue, clock, globalTimeout, acquiredAt, lockTimestamp,
                   blocking, blockingTimeout, now, nextInLine, allKeys, i, j,
                   lineItems, last, calls, cleared, pushed, overtaken>>

(* line 185: RPUSH *)
Push(s) ==
    /\ pc[s] = "push"
    /\ queue' = RPush(queue, timestampedKey[s])
    /\ pc' = [pc EXCEPT ![s] = LoopTop(s)]
    /\ cleared' = AfterCommand
    /\ pushed' = Append(pushed, s)
    /\ UNCHANGED <<clock, globalTimeout, uuid, acquiredAt, lockTimestamp,
                   locals, last, calls, overtaken>>

(* lines 188-194 (and the sleep of 254-255 before it): keepGoing() *)
KeepGoing(s) ==
    /\ pc[s] = "loop"
    /\ pc' = [pc EXCEPT ![s] =
                IF clock - start[s] < blockingTimeout[s] THEN "head" ELSE "give_up"]
    /\ UNCHANGED <<queue, clock, globalTimeout, uuid, acquiredAt, lockTimestamp,
                   locals, last, calls, cleared, pushed, overtaken>>

(* lines 195-196 and 207-217: LRANGE 0 0 *)
ReadHead(s) ==
    /\ pc[s] = "head"
    /\ pc' = [pc EXCEPT ![s] =
                IF queue = <<>> THEN "e_lrem" ELSE AfterHead(s, Head(queue))]
    /\ nextInLine' = [nextInLine EXCEPT ![s] =
                        IF queue # <<>> /\ AfterHead(s, Head(queue)) = "chk_stale"
                        THEN Head(queue) ELSE NoKey]
    /\ cleared' = AfterCommand
    /\ UNCHANGED <<queue, clock, globalTimeout, uuid, acquiredAt, lockTimestamp,
                   blocking, blockingTimeout, start, now, timestampedKey,
                   allKeys, i, j, lineItems, last, calls, pushed, overtaken>>

(* line 198: LREM of our own key, the queue was empty *)
EmptyLRem(s) ==
    /\ pc[s] = "e_lrem"
    /\ queue' = LRem(queue, timestampedKey[s])
    /\ pc' = [pc EXCEPT ![s] = "e_push"]
    /\ cleared' = AfterCommand
    /\ UNCHANGED <<clock, globalTimeout, uuid, acquiredAt, lockTimestamp,
                   locals, last, calls, pushed, overtaken>>

(* line 199: RPUSH of our own key again *)
EmptyPush(s) ==
    /\ pc[s] = "e_push"
    /\ queue' = RPush(queue, timestampedKey[s])
    /\ pc' = [pc EXCEPT ![s] = "e_head"]
    /\ cleared' = AfterCommand
    /\ UNCHANGED <<clock, globalTimeout, uuid, acquiredAt, lockTimestamp,
                   locals, last, calls, pushed, overtaken>>

(* lines 200-201 and 207-217: the second LRANGE 0 0 *)
EmptyHead(s) ==
    /\ pc[s] = "e_head"
    /\ pc' = [pc EXCEPT ![s] =
                IF queue = <<>> THEN "fatal" ELSE AfterHead(s, Head(queue))]
    /\ nextInLine' = [nextInLine EXCEPT ![s] =
                        IF queue # <<>> /\ AfterHead(s, Head(queue)) = "chk_stale"
                        THEN Head(queue) ELSE NoKey]
    /\ cleared' = AfterCommand
    /\ UNCHANGED <<queue, clock, globalTimeout, uuid, acquiredAt, lockTimestamp,
                   blocking, blockingTimeout, start, now, timestampedKey,
                   allKeys, i, j, lineItems, last, calls, pushed, overtaken>>

(* lines 202-206: LREM, then raise Exception('Redis is not behaving.') *)
Fatal(s) ==
    /\ pc[s] = "fatal"
    /\ queue' = LRem(queue, timestampedKey[s])
    /\ cleared' = AfterCommand
    /\ Return(s, "acq_fatal")
    /\ UNCHANGED <<clock, globalTimeout, uuid, acquiredAt, lockTimestamp, calls>>

(* lines 212 and 240, 331-336: _setGotLock *)
SetGotLock(s) ==
    /\ pc[s] = "got"
    /\ acquiredAt' = [acquiredAt EXCEPT ![s] = clock]
    /\ lockTimestamp' = [lockTimestamp EXCEPT ![s] = clock]
    /\ pc' = [pc EXCEPT ![s] = "upd_time"]
    /\ UNCHANGED <<queue, clock, globalTimeout, uuid, locals, last, calls,
                   cleared, pushed, overtaken>>

(* lines 217-221 and 249: the head is not ours; is it past the timeout? *)
CheckStale(s) ==
    /\ pc[s] = "chk_stale"
    /\ IF clock - nextInLine[s].ts > globalTimeout
       THEN /\ pc' = [pc EXCEPT ![s] = "all"]
            /\ now' = [now EXCEPT ![s] = clock]
       ELSE /\ pc' = [pc EXCEPT ![s] = EndOfPass(s)]
            /\ UNCHANGED now
    /\ nextInLine' = [nextInLine EXCEPT ![s] = NoKey]
    /\ UNCHANGED <<queue, clock, globalTimeout, uuid, acquiredAt, lockTimestamp,
                   blocking, blockingTimeout, start, timestampedKey,
                   allKeys, i, j, lineItems, last, calls, cleared, pushed, overtaken>>

(* lines 230-247: the index at which the walk over allKeys stops *)
WalkStop(keys, own, t) ==
    CHOOSE k \in 1..Len(keys) :
        /\ keys[k] = own \/ t - keys[k].ts < globalTimeout
        /\ \A m \in 1..(k-1) : ~(keys[m] = own \/ t - keys[m].ts < globalTimeout)

(* lines 223-247: LRANGE 0 -1 and the walk; allKeys is read again only by *)
(* the LREMs of line 238                                                  *)
ReadAll(s) ==
    /\ pc[s] = "all"
    /\ cleared' = AfterCommand
    /\ now' = [now EXCEPT ![s] = 0]
    /\ IF ~InSeq(queue, timestampedKey[s])
       THEN /\ pc' = [pc EXCEPT ![s] = "re_push"]
            /\ UNCHANGED <<allKeys, i, j>>
       ELSE LET k == WalkStop(queue, timestampedKey[s], now[s])
            IN IF queue[k] = timestampedKey[s]
               THEN IF k = 1
                    THEN /\ pc' = [pc EXCEPT ![s] = "got"]
                         /\ UNCHANGED <<allKeys, i, j>>
                    ELSE /\ pc' = [pc EXCEPT ![s] = "sweep"]
                         /\ allKeys' = [allKeys EXCEPT ![s] = queue]
                         /\ i' = [i EXCEPT ![s] = k]
                         /\ j' = [j EXCEPT ![s] = 1]
               ELSE /\ pc' = [pc EXCEPT ![s] = EndOfPass(s)]
                    /\ UNCHANGED <<allKeys, i, j>>
    /\ UNCHANGED <<queue, clock, globalTimeout, uuid, acquiredAt, lockTimestamp,
                   blocking, blockingTimeout, start, timestampedKey,
                   nextInLine, lineItems, last, calls, pushed, overtaken>>

(* lines 224-227: our key is gone, RPUSH it and continue *)
RePush(s) ==
    /\ pc[s] = "re_push"
    /\ queue' = RPush(queue, timestampedKey[s])
    /\ pc' = [pc EXCEPT ![s] = LoopTop(s)]
    /\ cleared' = AfterCommand
    /\ UNCHANGED <<clock, globalTimeout, uuid, acquiredAt, lockTimestamp,
                   locals, last, calls, pushed, overtaken>>

(* lines 237-238: one LREM of a key that was ahead of ours *)
Sweep(s) ==
    /\ pc[s] = "sweep"
    /\ queue' = LRem(queue, allKeys[s][j[s]])
    /\ IF j[s] + 1 = i[s]
       THEN /\ pc' = [pc EXCEPT ![s] = "got"]
            /\ allKeys' = [allKeys EXCEPT ![s] = <<>>]
            /\ i' = [i EXCEPT ![s] = 0]
            /\ j' = [j EXCEPT ![s] = 0]
       ELSE /\ j' = [j EXCEPT ![s] = j[s] + 1]
            /\ UNCHANGED <<pc, allKeys, i>>
    /\ cleared' = AfterCommand
    /\ UNCHANGED <<clock, globalTimeout, uuid, acquiredAt, lockTimestamp,
                   blocking, blockingTimeout, start, now, timestampedKey,
                   nextInLine, lineItems, last, calls, pushed, overtaken>>

(* lines 249-252: not blocking, LREM our key and return False *)
NonBlockingFail(s) ==
    /\ pc[s] = "nb_lrem"
    /\ queue' = LRem(queue, timestampedKey[s])
    /\ cleared' = AfterCommand
    /\ Return(s, "acq_false")
    /\ UNCHANGED <<clock, globalTimeout, uuid, acquiredAt, lockTimestamp, calls>>

(* mutant: the timeout returns False without the LREM of line 257 *)
GiveUpKeepsKey(s) ==
    /\ pc[s] = "give_up"
    /\ cleared' = AfterCommand
    /\ Return(s, "acq_false")
    /\ UNCHANGED <<queue, clock, globalTimeout, uuid, acquiredAt, lockTimestamp,
                   calls>>

(* lines 257-258: blockingTimeout is over, LREM our key and return False *)
GiveUp(s) ==
    /\ pc[s] = "give_up"
    /\ queue' = LRem(queue, timestampedKey[s])
    /\ cleared' = AfterCommand
    /\ Return(s, "acq_false")
    /\ UNCHANGED <<clock, globalTimeout, uuid, acquiredAt, lockTimestamp, calls>>

(* ------------------------- __updateLockTimestamp ----------------------- *)
(* the key to be replaced: nextInLine on line 173, timestampedKey on 214, 241 *)
OldKey(s) == IF pc[s] \in {"ref_time", "ref_exec"} THEN nextInLine[s]
             ELSE timestampedKey[s]

(* mutant: the refresh sets acquiredAt too, as _setGotLock does *)
UpdateTimeSetsAcquiredAt(s) ==
    /\ pc[s] \in {"ref_time", "upd_time"}
    /\ lockTimestamp' = [lockTimestamp EXCEPT ![s] = clock]
    /\ acquiredAt' = [acquiredAt EXCEPT ![s] = clock]
    /\ pc' = [pc EXCEPT ![s] = IF pc[s] = "ref_time" THEN "ref_exec" ELSE "upd_exec"]
    /\ UNCHANGED <<queue, clock, globalTimeout, uuid, locals, last, calls,
                   cleared, pushed, overtaken>>

(* line 322: self.lockTimestamp = time.time() *)
UpdateTime(s) ==
    /\ pc[s] \in {"ref_time", "upd_time"}
    /\ lockTimestamp' = [lockTimestamp EXCEPT ![s] = clock]
    /\ pc' = [pc EXCEPT ![s] = IF pc[s] = "ref_time" THEN "ref_exec" ELSE "upd_exec"]
    /\ UNCHANGED <<queue, clock, globalTimeout, uuid, acquiredAt, locals, last, calls,
                   cleared, pushed, overtaken>>

(* lines 323-329: LINSERT BEFORE and LREM in one MULTI/EXEC *)
Pipeline(q, oldKey, newKey) == LRem(LInsertBefore(q, oldKey, newKey), oldKey)

(* lines 323-329, then acquire returns True (175, 215, 242) *)
UpdateExec(s) ==
    /\ pc[s] \in {"ref_exec", "upd_exec"}
    /\ queue' = Pipeline(queue, OldKey(s), TimestampedKey(uuid[s], lockTimestamp[s]))
    /\ cleared' = AfterCommand
    /\ Return(s, "acq_true")
    /\ UNCHANGED <<clock, globalTimeout, uuid, acquiredAt, lockTimestamp, calls>>

(* -------------------------------- release ------------------------------ *)
(* mutant: release takes every item of the queue for its own *)
MatchingAll(q, u) == q

(* lines 272-284: LRANGE 0 -1; the items that carry our uuid *)
Matching(q, u) == SelectSeq(q, LAMBDA x : x.uuid = u)

ReleaseCall(s) ==
    /\ pc[s] = "idle"
    /\ cleared' = AfterCommand
    /\ IF Matching(queue, uuid[s]) = <<>>
       THEN /\ lockTimestamp' = [lockTimestamp EXCEPT ![s] = None]
            /\ last' = [last EXCEPT ![s] = "rel_false"]
            /\ UNCHANGED <<pc, lineItems>>
       ELSE /\ lineItems' = [lineItems EXCEPT ![s] = Matching(queue, uuid[s])]
            /\ pc' = [pc EXCEPT ![s] = "rel_lrem"]
            /\ UNCHANGED <<lockTimestamp, last>>
    /\ UNCHANGED <<queue, clock, globalTimeout, uuid, acquiredAt, blocking,
                   blockingTimeout, start, now, timestampedKey, nextInLine,
                   allKeys, i, j, pushed, overtaken>>

(* mutant: release resets acquiredAt as well as lockTimestamp *)
ReleaseLRemResetsAcquiredAt(s) ==
    /\ pc[s] = "rel_lrem"
    /\ queue' = LRem(queue, Head(lineItems[s]))
    /\ cleared' = AfterCommand
    /\ IF Len(lineItems[s]) = 1
       THEN /\ lockTimestamp' = [lockTimestamp EXCEPT ![s] = None]
            /\ acquiredAt' = [acquiredAt EXCEPT ![s] = None]
            /\ Return(s, "rel_true")
       ELSE /\ lineItems' = [lineItems EXCEPT ![s] = Tail(lineItems[s])]
            /\ UNCHANGED <<lockTimestamp, acquiredAt, pc, last, blocking,
                           blockingTimeout, start, now, timestampedKey,
                           nextInLine, allKeys, i, j, pushed, overtaken>>
    /\ UNCHANGED <<clock, globalTimeout, uuid, calls>>

(* lines 276-284: one LREM per matching item; after the last, return True *)
ReleaseLRem(s) ==
    /\ pc[s] = "rel_lrem"
    /\ queue' = LRem(queue, Head(lineItems[s]))
    /\ cleared' = AfterCommand
    /\ IF Len(lineItems[s]) = 1
       THEN /\ lockTimestamp' = [lockTimestamp EXCEPT ![s] = None]
            /\ Return(s, "rel_true")
       ELSE /\ lineItems' = [lineItems EXCEPT ![s] = Tail(lineItems[s])]
            /\ UNCHANGED <<lockTimestamp, pc, last, blocking, blockingTimeout,
                           start, now, timestampedKey, nextInLine, allKeys, i, j,
                           pushed, overtaken>>
    /\ UNCHANGED <<clock, globalTimeout, uuid, acquiredAt, calls>>

(* --------------------------------- clear ------------------------------- *)
(* mutant: clear removes the caller's own keys only *)
ClearOwnKeys(s) ==
    /\ pc[s] = "idle"
    /\ queue' = SelectSeq(queue, LAMBDA x : x.uuid # uuid[s])
    /\ acquiredAt' = [acquiredAt EXCEPT ![s] = None]
    /\ lockTimestamp' = [lockTimestamp EXCEPT ![s] = None]
    /\ cleared' = "just"
    /\ UNCHANGED <<clock, globalTimeout, uuid, pc, locals, last, pushed, overtaken>>

(* lines 307-310: DELETE, and the caller's two timestamps are reset *)
Clear(s) ==
    /\ pc[s] = "idle"
    /\ queue' = <<>>
    /\ acquiredAt' = [acquiredAt EXCEPT ![s] = None]
    /\ lockTimestamp' = [lockTimestamp EXCEPT ![s] = None]
    /\ cleared' = "just"
    /\ UNCHANGED <<clock, globalTimeout, uuid, pc, locals, last, pushed, overtaken>>

(* ------------------------------- the clock ----------------------------- *)
(* time.time() is read, never set; two reads may return the same value *)
TickUpTo(horizon) ==
    /\ clock < horizon
    /\ clock' = clock + 1
    /\ UNCHANGED <<queue, globalTimeout, uuid, acquiredAt, lockTimestamp, pc,
                   locals, last, calls, cleared, pushed, overtaken>>

Tick == TickUpTo(MaxTime)

(* ----------------------------- specification --------------------------- *)
AcquireStep(s) ==
    \/ HasLockTime(s) \/ GenTicket(s) \/ Push(s) \/ KeepGoing(s) \/ ReadHead(s)
    \/ EmptyLRem(s) \/ EmptyPush(s) \/ EmptyHead(s) \/ Fatal(s) \/ SetGotLock(s)
    \/ CheckStale(s) \/ ReadAll(s) \/ RePush(s) \/ Sweep(s)
    \/ NonBlockingFail(s) \/ GiveUp(s) \/ UpdateTime(s) \/ UpdateExec(s)

(* acquire(blocking, blockingTimeout) as the callers use it *)
AcquireArgs == {<<TRUE, 0>>, <<TRUE, BlockT>>, <<FALSE, 0>>}

(* at most MaxCalls calls of acquire, release and clear are made *)
Budget == calls < MaxCalls /\ calls' = calls + 1

Next ==
    \/ \E s \in Sessions, a \in AcquireArgs : Budget /\ AcquireCall(s, a[1], a[2])
    \/ \E s \in Sessions : AcquireStep(s)
    \/ \E s \in Sessions : Budget /\ ReleaseCall(s)
    \/ \E s \in Sessions : ReleaseLRem(s)
    \/ \E s \in Sessions : Budget /\ Clear(s)
    \/ Tick

Spec == Init /\ [][Next]_vars

(* ---------------- an abandoned lock, with fair scheduling -------------- *)
(* Session 1 acquires the lock and then stops for good; session 2 then    *)
(* polls in a blocking acquire without blockingTimeout.  Session 1 reads  *)
(* the clock early enough for its key to pass the timeout before the      *)
(* clock stops at AbandonHorizon, and its two clock reads print           *)
(* differently, so that its key is in the queue when it stops.  The steps *)
(* left out are not enabled in any state of this specification.           *)
AbandonHorizon == MaxTime + TimeoutT

(* The clock read of line 322 printing differently from the read of      *)
(* line 181 that is in the session's key.                                 *)
UpdateTimeFresh(s) ==
    /\ Fmt(clock) # timestampedKey[s].ts
    /\ UpdateTime(s)

InitAbandon == Init /\ globalTimeout = TimeoutT

HolderStep ==
    /\ Fmt(clock) + globalTimeout < AbandonHorizon
    /\ \/ last[1] = "none" /\ AcquireCall(1, TRUE, 0) /\ UNCHANGED calls
       \/ GenTicket(1) \/ Push(1) \/ ReadHead(1) \/ SetGotLock(1)
       \/ UpdateTimeFresh(1)
       \/ UpdateExec(1)

ContenderStep ==
    \/ /\ last[1] = "acq_true"
       /\ last[2] = "none"
       /\ AcquireCall(2, TRUE, 0)
       /\ UNCHANGED calls
    \/ GenTicket(2) \/ Push(2) \/ ReadHead(2) \/ CheckStale(2) \/ ReadAll(2)
    \/ Sweep(2) \/ SetGotLock(2) \/ UpdateTime(2) \/ UpdateExec(2)

TickAbandon == TickUpTo(AbandonHorizon)

NextAbandon == HolderStep \/ ContenderStep \/ TickAbandon

SpecAbandon ==
    /\ InitAbandon
    /\ [][NextAbandon]_vars
    /\ WF_vars(ContenderStep)
    /\ WF_vars(TickAbandon)

(* ------------------- clear during a wait, fair scheduling -------------- *)
(* globalTimeout = 0.  Session 1 makes one blocking acquire without       *)
(* blockingTimeout.  Session 2 acquires and, whenever it holds the lock,  *)
(* releases it; it calls clear once.  Calls are not counted here.  With   *)
(* globalTimeout = 0 and no blockingTimeout the code only prints the      *)
(* clock into keys, so the clock is kept modulo MaxTime + 1 and never     *)
(* stops; the two clock reads of an acquire print differently, and the    *)
(* second read is not put off for ever.  The steps left out are not       *)
(* enabled in any state of this specification.                            *)
InitClearWait == Init /\ globalTimeout = 0

WaiterStep ==
    \/ last[1] = "none" /\ AcquireCall(1, TRUE, 0) /\ UNCHANGED calls
    \/ GenTicket(1) \/ Push(1) \/ ReadHead(1)
    \/ EmptyLRem(1) \/ EmptyPush(1) \/ EmptyHead(1)
    \/ SetGotLock(1)
    \/ UpdateTimeFresh(1)
    \/ UpdateExec(1)

WorkerStep ==
    \/ last[2] # "acq_true" /\ AcquireCall(2, TRUE, 0) /\ UNCHANGED calls
    \/ GenTicket(2) \/ Push(2) \/ ReadHead(2)
    \/ SetGotLock(2)
    \/ UpdateTimeFresh(2)
    \/ UpdateExec(2)
    \/ last[2] = "acq_true" /\ ReleaseCall(2) /\ UNCHANGED calls
    \/ ReleaseLRem(2)

ClearOnce == cleared = "no" /\ Clear(2) /\ UNCHANGED calls

TickWrap ==
    /\ clock' = (clock + 1) % (MaxTime + 1)
    /\ UNCHANGED <<queue, globalTimeout, uuid, acquiredAt, lockTimestamp, pc,
                   locals, last, calls, cleared, pushed, overtaken>>

NextClearWait == WaiterStep \/ WorkerStep \/ ClearOnce \/ TickWrap

SpecClearWait ==
    /\ InitClearWait
    /\ [][NextClearWait]_vars
    /\ WF_vars(WaiterStep)
    /\ WF_vars(WorkerStep)
    /\ WF_vars(TickWrap)
    /\ \A s \in Sessions : SF_vars(UpdateTimeFresh(s))

(* --------------------- a long wait, fair scheduling -------------------- *)
(* globalTimeout > 0, no clear, no crash.  Session 1 makes one blocking   *)
(* acquire without blockingTimeout.  Session 2 acquires and, whenever its *)
(* acquire returned True, releases.  Calls are not counted here.  Time    *)
(* never stops: once the clock has reached StarveNow the timestamps are   *)
(* kept relative to it, a tick of one printed unit making every stored    *)
(* timestamp one unit older instead of the clock one unit later.  The     *)
(* code only compares a stored timestamp with a fresh clock read, so an   *)
(* age is kept up to StarveNow, the first printed age past globalTimeout. *)
(* Time does not pass between a read of the list or of the clock and the  *)
(* commands that use it (lines 218-238, 322-329, 275-278), and the two    *)
(* clock reads of an acquire print differently.  The steps left out are   *)
(* not enabled in any state of this specification.                        *)
StarveNow == ((TimeoutT \div Res) + 1) * Res

InitStarve == Init /\ globalTimeout = TimeoutT

Older(t) == IF t = None THEN None ELSE IF t >= Res THEN t - Res ELSE 0

OlderKey(k) == [uuid |-> k.uuid, ts |-> Older(k.ts)]

OlderKeys(q) == [n \in 1..Len(q) |-> OlderKey(q[n])]

TickStarve ==
    \/ TickUpTo(StarveNow)
    \/ /\ clock = StarveNow
       /\ \A s \in Sessions :
             pc[s] \notin {"all", "sweep", "upd_exec", "ref_exec", "rel_lrem"}
       /\ queue' = OlderKeys(queue)
       /\ timestampedKey' = [s \in Sessions |-> OlderKey(timestampedKey[s])]
       /\ nextInLine' = [s \in Sessions |-> OlderKey(nextInLine[s])]
       /\ lockTimestamp' = [s \in Sessions |-> Older(lockTimestamp[s])]
       /\ acquiredAt' = [s \in Sessions |-> Older(acquiredAt[s])]
       /\ UNCHANGED <<clock, globalTimeout, uuid, pc, blocking, blockingTimeout,
                      start, now, allKeys, i, j, lineItems, last, calls,
                      cleared, pushed, overtaken>>

PollStep(s) ==
    \/ GenTicket(s) \/ Push(s) \/ ReadHead(s)
    \/ EmptyLRem(s) \/ EmptyPush(s) \/ EmptyHead(s) \/ Fatal(s)
    \/ CheckStale(s) \/ ReadAll(s) \/ RePush(s) \/ Sweep(s)
    \/ SetGotLock(s) \/ UpdateTimeFresh(s) \/ UpdateExec(s)

LongWaiterStep ==
    \/ last[1] = "none" /\ AcquireCall(1, TRUE, 0) /\ UNCHANGED calls
    \/ PollStep(1)

BusyWorkerStep ==
    \/ last[2] # "acq_true" /\ AcquireCall(2, TRUE, 0) /\ UNCHANGED calls
    \/ PollStep(2)
    \/ last[2] = "acq_true" /\ ReleaseCall(2) /\ UNCHANGED calls
    \/ ReleaseLRem(2)

NextStarve == LongWaiterStep \/ BusyWorkerStep \/ TickStarve

SpecStarve ==
    /\ InitStarve
    /\ [][NextStarve]_vars
    /\ WF_vars(LongWaiterStep)
    /\ WF_vars(BusyWorkerStep)
    /\ WF_vars(TickStarve)
    /\ \A s \in Sessions : SF_vars(UpdateTimeFresh(s))

(* ------------------------------- properties ---------------------------- *)
(* a session inside acquire's poll loop, its key pushed *)
Polling(s) == pc[s] \in {"loop", "head", "chk_stale", "all"}

(* the session's last call was an acquire that returned True, and it is   *)
(* idle or inside the fast path of a further acquire                      *)
Holder(s) ==
    /\ last[s] = "acq_true"
    /\ pc[s] \in {"idle", "hl_time", "ref_time", "ref_exec"}

(* C1: with globalTimeout = 0, at most one session would get hasLock ==   *)
(* True, in every reachable state.                                        *)
C1_AtMostOneHasLock ==
    globalTimeout = 0 => Cardinality({s \in Sessions : HasLock(s)}) <= 1

C1_Witness ==
    /\ globalTimeout = 0
    /\ \E s, r \in Sessions :
        /\ HasLock(s)
        /\ r # s
        /\ Polling(r)
        /\ InSeq(queue, timestampedKey[r])

(* C3: with globalTimeout = 0 and no clear, a session that is about to    *)
(* return True from acquire (it found its key at the head) has not been   *)
(* overtaken: no session whose RPUSH came later has returned True since.  *)
C3_NoOvertaking ==
    (globalTimeout = 0 /\ cleared = "no") =>
        \A s \in Sessions :
            pc[s] \in {"got", "upd_time", "upd_exec"} => s \notin overtaken

C3_Witness ==
    /\ globalTimeout = 0
    /\ cleared = "no"
    /\ \E s, r \in Sessions :
        /\ s # r
        /\ pc[s] = "upd_exec"
        /\ Len(pushed) = 2
        /\ pushed[1] = s
        /\ pushed[2] = r
        /\ Polling(r)

(* C6: once acquire has returned False or raised, and until the session   *)
(* calls acquire again, no key with the uuid of that call is in the queue.*)
C6_NoOrphan ==
    \A s \in Sessions :
        (pc[s] = "idle" /\ last[s] \in {"acq_false", "acq_fatal"}) =>
            uuid[s] \notin UuidsOf(queue)

C6_Witness ==
    \E s \in Sessions :
        /\ pc[s] = "idle"
        /\ last[s] = "acq_false"
        /\ queue # <<>>

(* C8: on the fast path of acquire (its own _hasLockPlusKey said True) no *)
(* step changes acquiredAt or uuid, the clock read sets lockTimestamp to  *)
(* the current time, which puts secondsRemaining at globalTimeout, and    *)
(* the call returns True.                                                 *)
C8_Refresh ==
    [][\A s \in Sessions :
        /\ (pc[s] \in {"hl_time", "ref_time", "ref_exec"} =>
                /\ acquiredAt'[s] = acquiredAt[s]
                /\ uuid'[s] = uuid[s])
        /\ ((pc[s] = "ref_time" /\ pc'[s] = "ref_exec") =>
                /\ lockTimestamp'[s] = clock'
                /\ SecondsRemaining(s)' = globalTimeout')
        /\ ((pc[s] = "ref_exec" /\ pc'[s] # "ref_exec") =>
                /\ pc'[s] = "idle"
                /\ last'[s] = "acq_true")]_vars

C8_Witness ==
    \E s \in Sessions :
        /\ pc[s] = "ref_exec"
        /\ acquiredAt[s] # None
        /\ acquiredAt[s] < lockTimestamp[s]
        /\ SecondsRemaining(s) = globalTimeout

(* C10: right after clear's DELETE, with no other store command in        *)
(* between, hasLock is False for every session.                           *)
C10_ClearDropsLock ==
    cleared = "just" => \A s \in Sessions : ~HasLock(s)

C10_Witness ==
    /\ cleared = "just"
    /\ \E s, r \in Sessions :
        /\ s # r
        /\ Holder(s)
        /\ Polling(r)

(* the session holds the lock: it is a Holder and hasLock would be True *)
Holds(s) == Holder(s) /\ HasLock(s)

(* C2: while a session holds the lock (its acquire returned True, no      *)
(* release since, its key at the head and not past the timeout, no clear) *)
(* no other session's acquire returns True.                               *)
C2_NoSecondHolder ==
    [][\A a, b \in Sessions :
        (a # b /\ cleared = "no" /\ Holds(a)) => ~UpdateExec(b)]_vars

(* a step in which release returns *)
ReleaseReturns(s) ==
    \/ ReleaseCall(s) /\ pc'[s] = "idle"
    \/ ReleaseLRem(s) /\ pc'[s] = "idle"

(* C5, as claimed: release returns True exactly when the session's last   *)
(* call was an acquire that returned True.                                *)
C5_ReleaseOncePerAcquire ==
    [][\A s \in Sessions :
        ReleaseReturns(s) =>
            (last'[s] = "rel_true" <=> last[s] = "acq_true")]_vars

(* C5, amended: release returns True only if the session's last call was  *)
(* an acquire that returned True (so not a second time, and not without   *)
(* an acquire), and then exactly when a key with the session's uuid is    *)
(* still in the queue that release reads.                                 *)
C5_ReleaseAmended ==
    [][\A s \in Sessions :
        /\ (ReleaseReturns(s) /\ last'[s] = "rel_true") => last[s] = "acq_true"
        /\ (ReleaseCall(s) /\ last[s] = "acq_true") =>
              (pc'[s] = "rel_lrem" <=> uuid[s] \in UuidsOf(queue))
        /\ (ReleaseLRem(s) /\ pc'[s] = "idle") => last'[s] = "rel_true"]_vars

C5_Witness ==
    \E s \in Sessions :
        /\ pc[s] = "idle"
        /\ last[s] = "rel_true"
        /\ acquiredAt[s] # None
        /\ lockTimestamp[s] = None

(* C7: with globalTimeout = 0 and no clear, the key of a session whose    *)
(* acquire returned True stays at the head of the queue until that        *)
(* session calls release.                                                 *)
C7_HolderKeepsHead ==
    (globalTimeout = 0 /\ cleared = "no") =>
        \A h \in Sessions :
            Holder(h) => (queue # <<>> /\ Head(queue).uuid = uuid[h])

(* C4: globalTimeout > 0 and the holder gone for good: a contender that  *)
(* keeps polling in a blocking acquire eventually has acquire return True *)
(* and observes hasLock == True.                                          *)
C4_AbandonedLockTaken ==
    (last[1] = "acq_true" /\ pc[2] # "idle")
        ~> (last[2] = "acq_true" /\ HasLock(2))

(* C9: a session that is polling in a blocking acquire when its key has   *)
(* been deleted by clear eventually has its key in the queue again,       *)
(* whatever the other session does, as long as every holder releases.     *)
C9_WaiterReenters ==
    (cleared # "no" /\ pc[1] = "head" /\ ~InSeq(queue, timestampedKey[1]))
        ~> InSeq(queue, timestampedKey[1])


(* line 221: a key is past the timeout *)
Stale(key, t) == t - key.ts > globalTimeout

(* C11: hasLock is True exactly when the head key carries the session's   *)
(* uuid and either globalTimeout = 0 or the head key is not stale, the    *)
(* boundary now - issuedAt = globalTimeout counting as not stale.         *)
C11_HasLockIff ==
    \A s \in Sessions :
        HasLock(s) <=>
            /\ queue # <<>>
            /\ Head(queue).uuid = uuid[s]
            /\ (globalTimeout = 0 \/ ~Stale(Head(queue), clock))

(* lines 296-299: the subtraction raises on None, and None is returned *)
SecondsRemainingKnown(s) == lockTimestamp[s] # None

(* C12: once secondsRemaining has been known (a first acquisition has     *)
(* succeeded) it never goes back to None, whatever call comes next.       *)
C12_SecondsRemainingStaysKnown ==
    [][\A s \in Sessions :
        SecondsRemainingKnown(s) => SecondsRemainingKnown(s)']_vars

C14_FreeLockOneTicket ==
    [][\A s \in Sessions :
        (UpdateExec(s) /\ ~blocking[s] /\ calls = 1 /\ pc[s] = "upd_exec") =>
            queue' = <<TimestampedKey(uuid[s], lockTimestamp[s])>>]_vars

(* C15: an acquire with blocking = True and no blockingTimeout never      *)
(* returns False.                                                         *)
C15_BlockingNeverFalse ==
    [][\A s \in Sessions :
        (pc[s] # "idle" /\ pc'[s] = "idle" /\ last'[s] = "acq_false") =>
            (~blocking[s] \/ blockingTimeout[s] # 0)]_vars

C15_Witness ==
    \E s \in Sessions :
        /\ blocking[s]
        /\ blockingTimeout[s] = 0
        /\ pc[s] = "head"
        /\ queue # <<>>
        /\ Head(queue) # timestampedKey[s]
        /\ InSeq(queue, timestampedKey[s])
        /\ clock = MaxTime

(* C16: no clear so far: when acquire returns True a key with the         *)
(* caller's uuid is at the head of the queue.                             *)
C16_TrueMeansHead ==
    [][\A s \in Sessions :
        (UpdateExec(s) /\ cleared' = "no") =>
            (queue' # <<>> /\ Head(queue').uuid = uuid[s])]_vars

(* C17: a key that an expiry sweep removes is stale at that moment and    *)
(* its owner is neither polling in a blocking acquire nor holding.        *)
C17_SweepRemovesAbandoned ==
    [][\A s \in Sessions :
        (Sweep(s) /\ InSeq(queue, allKeys[s][j[s]])) =>
            /\ Stale(allKeys[s][j[s]], clock)
            /\ \A r \in Sessions :
                  uuid[r] = allKeys[s][j[s]].uuid =>
                      ~((Polling(r) /\ blocking[r]) \/ Holds(r))]_vars

(* C18: as long as nobody has called clear, no acquire ends with the      *)
(* 'Redis is not behaving.' exception (the store executes every command   *)
(* correctly in this model).                                              *)
C18_NoFatalWithoutClear ==
    cleared = "no" =>
        \A s \in Sessions : pc[s] # "fatal" /\ last[s] # "acq_fatal"

(* C19: the refresh of a key that is in the queue puts the new key in the *)
(* place of the old one and changes nothing else: the owner has one key   *)
(* before and one key after, the other keys keep their order.             *)
C19_RefreshInPlace ==
    [][\A s \in Sessions :
        (UpdateExec(s) /\ InSeq(queue, OldKey(s))) =>
            /\ Len(Matching(queue', uuid[s])) = 1
            /\ queue' = [queue EXCEPT ![IndexOf(queue, OldKey(s))] =
                            TimestampedKey(uuid[s], lockTimestamp[s])]]_vars

(* C20: release has read one key of its own; when it then returns True    *)
(* its LREM has removed that key from the queue, also when another        *)
(* session sweeps or clears in between.                                   *)
C20_ReleaseTrueRemoved ==
    [][\A s \in Sessions :
        (ReleaseLRem(s) /\ Len(lineItems[s]) = 1 /\ last'[s] = "rel_true") =>
            /\ InSeq(queue, Head(lineItems[s]))
            /\ ~InSeq(queue', Head(lineItems[s]))]_vars


(* the top of the poll loop: keepGoing() or the read of the head *)
AtLoopTop(s) == pc[s] \in {"loop", "head"}

(* C21: a non-blocking acquire comes to the top of the poll loop once,    *)
(* after its RPUSH of line 185, and never a second time.                  *)
C21_NonBlockingOnePass ==
    [][\A s \in Sessions :
        (~blocking[s] /\ ~AtLoopTop(s) /\ AtLoopTop(s)') => pc[s] = "push"]_vars

(* C22: the queue never holds two keys with the same uuid (so no key      *)
(* twice either).                                                         *)
C22_OneTicketPerOwner ==
    \A k, m \in 1..Len(queue) : k # m => queue[k].uuid # queue[m].uuid

C22_Witness ==
    /\ Len(queue) = 2
    /\ cleared = "yes"
    /\ \E s \in Sessions :
        /\ pc[s] = "upd_exec"
        /\ InSeq(queue, timestampedKey[s])
        /\ Fmt(lockTimestamp[s]) # timestampedKey[s].ts


(* C23: globalTimeout > 0, no clear, every holder releases: a blocking    *)
(* acquire without blockingTimeout eventually returns True.               *)
C23_NoStarvation ==
    (pc[1] # "idle") ~> (last[1] = "acq_true")

=============================================================================
